---- MODULE Spec2Model ----
(***************************************************************************)
(* Connection supervision and delivery consistency of the Signal bot fleet *)
(* (src/src/main.js): one WebSocket per bot identity, the message handler  *)
(* that tracks user messages, the delayed consistency check, the health    *)
(* sweep and the pending-message replay on reopen.                         *)
(*                                                                         *)
(* Every callback of the Node.js event loop is one action: callbacks run   *)
(* to completion and interleave only between each other.  Timers give a    *)
(* minimum delay only, so a pending timeout may run at any later step of   *)
(* the same period of the clock.  The clock (Date.now()) counts periods of *)
(* more than five minutes: two readings differ by more than 5 * 60 * 1000  *)
(* ms exactly when a Tick lies between them.                               *)
(***************************************************************************)
EXTENDS Integers, Sequences, FiniteSets, TLC

\* ------------------------------------------------------------ configuration

\* config.BOT_INSTANCES: the phone of every configured bot
Bots == {"A", "B", "C"}

\* bot.name of every configured bot
BotName(b) == CASE b = "A" -> "Alpha" [] b = "B" -> "Beta" [] OTHER -> "Gamma"

Null == "null"

\* the uuid the accounts file lists for a bot's number when the lookup works
AccountUuid(b) == CASE b = "A" -> "uA" [] b = "B" -> "uB" [] OTHER -> "uC"

MAX_RECONNECT_RETRIES == 3

\* setTimeout(() => reconnectWebSocket(...), 1000)
RECONNECT_DELAY_MS == 1000

\* 5 * 60 * 1000 ms, in whole periods of the clock: any difference of a
\* period or more exceeds it
STALE_AFTER == 0
RETENTION == 0

\* ------------------------------------------------------------------ bounds

\* the clock stops at MaxTime
MaxTime == 2

\* connections the gateway or the network breaks over a run, all bots
\* together: one under Spec, enough for a whole retry cycle under SpecRetry,
\* none under SpecLate and SpecDirectory, where only consistency checks
\* close sockets
MaxFaults == 1
MaxRetryFaults == 4
MaxLateFaults == 0

\* user entries the shared history comes to hold in the runs that call the
\* dispatcher with arguments of any kind
MaxHistory == 1

\* sockets a bot can come to have: the first, one per fault, and those a
\* consistency check makes it open
SocketIds == 1..(MaxRetryFaults + 4)

\* ---------------------------------------------------------------- payloads

\* A decoded envelope of a group message: source, sourceUuid,
\* envelope.timestamp, the uuids and the numbers of dataMessage.mentions,
\* dataMessage.quote.authorUuid and .author, and dataMessage.message as its
\* words, a leading "." being a word of its own.
\* MsgMention mentions bot C and quotes a user; MsgPlain addresses no one;
\* MsgBot is what bot B sent to the group; MsgCommand is a command that
\* mentions bot C; MsgBotMention is what bot B sent with a mention of bot C;
\* MsgQuote replies to a message of bot C
MsgMention == [source |-> "U", sourceUuid |-> "uU", timestamp |-> 1700,
               mentions |-> {"uC"}, numbers |-> {"C"}, quote |-> "uX",
               author |-> "X", content |-> <<"hi">>]
MsgPlain   == [source |-> "U", sourceUuid |-> "uU", timestamp |-> 1701,
               mentions |-> {}, numbers |-> {}, quote |-> Null,
               author |-> Null, content |-> <<"hi">>]
MsgBot     == [source |-> "B", sourceUuid |-> "uB", timestamp |-> 1702,
               mentions |-> {}, numbers |-> {}, quote |-> Null,
               author |-> Null, content |-> <<"hi">>]
MsgCommand == [source |-> "U", sourceUuid |-> "uU", timestamp |-> 1703,
               mentions |-> {"uC"}, numbers |-> {"C"}, quote |-> Null,
               author |-> Null, content |-> <<"!rr", "2">>]
MsgBotMention == [source |-> "B", sourceUuid |-> "uB", timestamp |-> 1704,
               mentions |-> {"uC"}, numbers |-> {"C"}, quote |-> Null,
               author |-> Null, content |-> <<"hi">>]
MsgQuote   == [source |-> "U", sourceUuid |-> "uU", timestamp |-> 1705,
               mentions |-> {}, numbers |-> {}, quote |-> "uC",
               author |-> "C", content |-> <<"hi">>]

Msgs == {MsgMention, MsgPlain, MsgBot, MsgCommand, MsgBotMention, MsgQuote}

\* messageId = `${source}:${timestamp}`
MessageId(m) == <<m.source, m.timestamp>>

MessageIds == {MessageId(m) : m \in Msgs}

NoEntry == [absent |-> TRUE]

VARIABLES
    websocketState,   \* phone -> [ws, connected, lastMessage, retryCount]
    sockets,          \* phone -> the WebSockets created for it, by readyState
    reconnectTimers,  \* phone -> delays of the pending reconnect timeouts
    lastUserMessage,  \* messageId -> tracked message or NoEntry
    checkTimers,      \* messageId -> pending checkMessageConsistency timeouts,
                      \* each by the time it was set
    reconciled,       \* messageId -> checks that have run on the present entry
    pendingMessages,  \* phone -> messages to re-process after reconnection
    botUuidCache,     \* phone -> cached uuid or Null
    accounts,         \* phone -> uuid listed in accounts.json or Null
    inbox,            \* phone -> messages the gateway has yet to push to it
    now,              \* Date.now()
    faults,           \* connections broken so far
    exited,           \* process.exit() was called
    users,            \* user key -> [botInteractionCount, privacyMode]
    randomReplyChance,\* config.RANDOM_REPLY_CHANCE
    groupHistories,   \* the user entries of the group's shared history, each
                      \* by the id of its message
    agent,            \* the executeAgentTurn in progress, if any
    calls             \* what the last callback was and called: sweep, close,
                      \* process, reconnect

vars == <<websocketState, sockets, reconnectTimers, lastUserMessage, checkTimers,
          reconciled, pendingMessages, botUuidCache, accounts, inbox, now, faults,
          exited, users, randomReplyChance, groupHistories, agent, calls>>

\* the state of the dispatcher
dispatcher == <<users, randomReplyChance, groupHistories>>

\* ------------------------------------------------------------------ helpers

RECURSIVE SetToSeq(_)
SetToSeq(S) ==
    IF S = {} THEN <<>>
    ELSE LET x == CHOOSE y \in S : TRUE IN <<x>> \o SetToSeq(S \ {x})

RECURSIVE SumLen(_, _)
SumLen(f, S) ==
    IF S = {} THEN 0
    ELSE LET x == CHOOSE y \in S : TRUE IN Len(f[x]) + SumLen(f, S \ {x})

\* 2^n and the smaller of two numbers, for the backoff formula of the claims
RECURSIVE Pow2(_)
Pow2(n) == IF n = 0 THEN 1 ELSE 2 * Pow2(n - 1)

Min(a, b) == IF a < b THEN a ELSE b

\* -------------------------------------------------------- the ws library

\* readyState after ws.close(): a connecting socket aborts its handshake
\* (error, then close), an open one starts the closing handshake, a closing
\* or closed one is left alone and emits nothing
SocketClose(s) ==
    CASE s = "connecting" -> "aborting"
      [] s = "open"       -> "closing"
      [] OTHER            -> s

\* ws.close() on the stored handle, when there is one
CloseHandle(socks, ws) ==
    IF ws = 0 THEN socks ELSE [socks EXCEPT ![ws] = SocketClose(@)]

\* ------------------------------------------------------------ getBotUuid

GetBotUuid(cache, phone) ==
    IF cache[phone] # Null THEN cache[phone] ELSE accounts[phone]

\* a getBotUuid that reads the accounts file at every call
CacheAfterLookupRefresh(cache, phone) ==
    IF accounts[phone] # Null THEN [cache EXCEPT ![phone] = accounts[phone]]
    ELSE cache

\* botUuidCache after getBotUuid(phone): filled on success only
CacheAfterLookup(cache, phone) ==
    IF cache[phone] # Null THEN cache
    ELSE IF accounts[phone] # Null THEN [cache EXCEPT ![phone] = accounts[phone]]
    ELSE cache

\* botUuidCache after getBotUuid was called for every phone in S
CacheAfterLookups(cache, S) ==
    [p \in Bots |-> IF p \in S THEN CacheAfterLookup(cache, p)[p] ELSE cache[p]]

\* -------------------------------------------------------- processMessage

\* The dispatcher, seen from the core: it is called with (message, phone,
\* isFirstReceiver) and looks up the bot's own uuid
ProcessCall(m, b, first) == <<"process", b, MessageId(m), first>>

\* botMentioned: a mention or the quoted author is the bot, by the uuid that
\* getBotUuid resolved or by the bot's number
BotMentioned(m, botUuid, botPhone) ==
    \/ botUuid # Null /\ botUuid \in m.mentions
    \/ botPhone \in m.numbers
    \/ m.quote # Null /\ botUuid # Null /\ m.quote = botUuid
    \/ m.author # Null /\ m.author = botPhone

\* the group the bots are in
GroupId == "G"

\* who writes to the group: a user and the bots
Senders == {"U"} \cup Bots

\* config.BOT_INSTANCES, in the order of the configuration
BotOrder == <<"A", "B", "C">>

\* config: group_privacy_mode, random_reply_chance,
\* max_bot_mentions_per_conversation and max_history_messages when the
\* configuration leaves them out
GROUP_PRIVACY_MODE == "opt-in"
RANDOM_REPLY_CHANCE == 0
MAX_BOT_MENTIONS_PER_CONVERSATION == 10
MAX_HISTORY_MESSAGES == 200

PrivacyModes == {"opt-in", "opt-out"}

\* getOrCreateUser: the key `${sender}:${groupId}:${botPhone}`, by its parts
UserKey(sender, groupId, botPhone) == <<sender, groupId, botPhone>>

UserKeys == {UserKey(sender, GroupId, b) : sender \in Senders, b \in Bots}

\* new User(...): a record is made at the first message of its sender to
\* its bot, with these fields
NewUser(mode) == [botInteractionCount |-> 0, privacyMode |-> mode]

\* a limit that is never reached
IsBotLoopLimitReachedNever(user) == FALSE

IsBotLoopLimitReached(user) ==
    user.botInteractionCount >= MAX_BOT_MENTIONS_PER_CONVERSATION

IncrementBotInteractionCounter(us, key) ==
    [us EXCEPT ![key].botInteractionCount = @ + 1]

\* userKey.endsWith(`:${groupId}`): the last part of the key is the group
KeyEndsWith(key, groupId) == key[Len(key)] = groupId

\* for (const userKey of Object.keys(users))
\*     if (userKey.endsWith(`:${groupId}`)) users[userKey].resetBotInteractionCounter()
ResetBotCounters(us, groupId) ==
    [k \in DOMAIN us |->
        IF KeyEndsWith(k, groupId) THEN [us[k] EXCEPT !.botInteractionCount = 0]
        ELSE us[k]]

\* sender === bot.phone || (uuid && senderUuid === uuid)
MatchesBot(m, p) ==
    \/ m.source = p
    \/ GetBotUuid(botUuidCache, p) # Null /\ m.sourceUuid = GetBotUuid(botUuidCache, p)

\* senderIsBot: some configured bot matches the sender
SenderIsBot(m) == \E p \in Bots : MatchesBot(m, p)

\* the bots that loop calls getBotUuid for: every bot up to the first match
SenderLookups(m) ==
    {BotOrder[j] : j \in {i \in 1..Len(BotOrder) :
                            \A k \in 1..(i - 1) : ~MatchesBot(m, BotOrder[k])}}

\* the phones processMessage(m, b, ...) calls getBotUuid for
Lookups(m, b) == {b} \cup SenderLookups(m)

\* the commands a group message can carry ('!im' is for trusted users)
Commands == {"!help", "!cp", "!cm", "!cup", "!is", "!privacy", "!rr"}

\* /^\d+$/.test(trimmed) and parseInt(trimmed), -1 for what is no number
ParseInt(w) == CASE w = "0" -> 0 [] w = "1" -> 1 [] w = "2" -> 2 [] OTHER -> -1

\* handleRandomReplyCmd: config.setRandomReplyChance(newChance)
HandleRandomReplyCmd(chance, args) ==
    IF Len(args) = 1 /\ ParseInt(args[1]) >= 0 THEN ParseInt(args[1]) ELSE chance

\* RANDOM_REPLY_CHANCE after the command was executed; the other commands
\* change fields of the user that the model leaves out
ExecuteCommand(chance, command, args) ==
    IF command = "!rr" THEN HandleRandomReplyCmd(chance, args) ELSE chance

\* groupHistories[groupId].slice(-MAX_HISTORY_MESSAGES)
TrimHistory(h) ==
    IF Len(h) > MAX_HISTORY_MESSAGES
    THEN SubSeq(h, Len(h) - MAX_HISTORY_MESSAGES + 1, Len(h)) ELSE h

\* handleAiMessage: the first receiver adds the message to the shared
\* history of the group
HistoryAfterAiMessage(h, m, first) ==
    TrimHistory(IF first THEN Append(h, MessageId(m)) ELSE h)

\* const shouldExecuteCommand = !isGroupChat || shouldRespond, in a group
ShouldExecuteCommand(shouldRespond) == shouldRespond

\* Math.floor(Math.random() * chance) + 1 === 1: sure when the chance is 1,
\* open (hit) when it is more
RandomHit(chance, hit) == chance = 1 \/ (chance > 1 /\ hit)

\* the values of hit that make a difference
Hits(chance) == IF chance > 1 THEN BOOLEAN ELSE {TRUE}

\* an opt-in mode that keeps every message
StoreInHistoryAlways(dot, botMentioned) == TRUE

\* const storeInHistory = content.startsWith('.') || botMentioned
StoreInHistory(dot, botMentioned) == dot \/ botMentioned

\* The dispatcher's state [users, chance, history] after
\* processMessage(m, b, first) for a group message with text, and what
\* became of the message: "limit" (dropped by the loop prevention),
\* "filtered" (dropped by the privacy mode), "command" (executed), "reply"
\* (given to the model, answer sent) or "silent" (kept for the history only)
ProcessMessage(st, m, b, first, hit) ==
    LET botUuid      == GetBotUuid(botUuidCache, b)
        botMentioned == BotMentioned(m, botUuid, b)
        key          == UserKey(m.source, GroupId, b)
        user         == st.users[key]
        senderIsBot  == SenderIsBot(m)
        limit        == senderIsBot /\ botMentioned /\ IsBotLoopLimitReached(user)
        users1       == IF senderIsBot
                        THEN IF botMentioned /\ ~limit
                             THEN IncrementBotInteractionCounter(st.users, key)
                             ELSE st.users
                        ELSE ResetBotCounters(st.users, GroupId)
        dot          == m.content[1] = "."
        filtered     == /\ ~senderIsBot
                        /\ IF users1[key].privacyMode = "opt-in"
                           THEN ~StoreInHistory(dot, botMentioned) ELSE dot
        random       == /\ ~botMentioned
                        /\ st.chance > 0
                        /\ ~(senderIsBot /\ IsBotLoopLimitReached(users1[key]))
                        /\ RandomHit(st.chance, hit)
        users2       == IF random /\ senderIsBot
                        THEN IncrementBotInteractionCounter(users1, key) ELSE users1
        shouldRespond == botMentioned \/ random
        command      == m.content[1]
        args         == Tail(m.content)
        executes     == /\ command \in Commands
                        /\ ShouldExecuteCommand(shouldRespond)
    IN  IF limit THEN [st EXCEPT !.outcome = "limit"]
        ELSE IF filtered THEN [st EXCEPT !.users = users1, !.outcome = "filtered"]
        ELSE IF executes
        THEN [users |-> users2, chance |-> ExecuteCommand(st.chance, command, args),
              history |-> st.history, outcome |-> "command"]
        ELSE [users |-> users2, chance |-> st.chance,
              history |-> HistoryAfterAiMessage(st.history, m, first),
              outcome |-> IF shouldRespond THEN "reply" ELSE "silent"]

\* users, RANDOM_REPLY_CHANCE and the history as the dispatcher finds them
DispatcherState ==
    [users |-> users, chance |-> randomReplyChance, history |-> groupHistories,
     outcome |-> "none"]

\* the dispatcher's state after the messages of the queue were processed
\* in turn, those of failed left out: their processMessage threw
RECURSIVE ProcessAll(_, _, _, _, _, _)
ProcessAll(st, queue, b, hits, failed, i) ==
    IF i > Len(queue) THEN st
    ELSE ProcessAll(IF i \in failed THEN st
                    ELSE ProcessMessage(st, queue[i], b, FALSE, hits[i]),
                    queue, b, hits, failed, i + 1)

\* ------------------------------------------------- createMessageHandler

\* for (const state of Object.values(websocketState))
\*     if (source === state.botName || source === botPhone) isBotMessage = true
IsBotMessage(source, botPhone) ==
    \E p \in Bots : source = BotName(p) \/ source = botPhone

\* uuids of the mentions and of the quoted author
MentionedBotUuids(m) ==
    m.mentions \cup (IF m.quote # Null THEN {m.quote} ELSE {})

NewEntry(m) ==
    [timestamp |-> now, receivedBy |-> {}, checkScheduled |-> FALSE,
     data |-> m, mentionedBotUuids |-> MentionedBotUuids(m)]

\* a handler that takes every sighting of a user message for the first
IsFirstReceiverAlways(m, botPhone) == ~IsBotMessage(m.source, botPhone)

\* isFirstReceiverForMessage: the handler created the entry
IsFirstReceiver(m, botPhone) ==
    /\ ~IsBotMessage(m.source, botPhone)
    /\ lastUserMessage[MessageId(m)] = NoEntry

\* a handler that records the receiver only when it creates the entry
TrackMessageCreatorOnly(m, botPhone) ==
    LET id == MessageId(m)
    IN  IF IsBotMessage(m.source, botPhone) \/ lastUserMessage[id] # NoEntry
        THEN lastUserMessage
        ELSE [lastUserMessage EXCEPT ![id] =
                [NewEntry(m) EXCEPT !.receivedBy = {botPhone},
                                    !.checkScheduled = TRUE]]

\* lastUserMessage after the handler of botPhone tracked m
TrackMessage(m, botPhone) ==
    LET id    == MessageId(m)
        entry == IF lastUserMessage[id] = NoEntry THEN NewEntry(m)
                 ELSE lastUserMessage[id]
        first == lastUserMessage[id] = NoEntry
    IN  IF IsBotMessage(m.source, botPhone) THEN lastUserMessage
        ELSE [lastUserMessage EXCEPT ![id] =
                [entry EXCEPT !.receivedBy = @ \cup {botPhone},
                              !.checkScheduled = @ \/ first]]

\* setTimeout(() => checkMessageConsistency(messageId), 3000)
ScheduleCheck(m, botPhone) ==
    LET id == MessageId(m)
    IN  IF IsFirstReceiver(m, botPhone) /\ ~NewEntry(m).checkScheduled
        THEN [checkTimers EXCEPT ![id] = Append(@, now)]
        ELSE checkTimers

\* a socket of b is open: the gateway can push to it
HasOpenSocket(b) == \E h \in 1..Len(sockets[b]) : sockets[b][h] = "open"

\* ws.on('message') with a frame that decodes
WsMessage(b, m) ==
    /\ ~exited
    /\ UNCHANGED agent
    /\ HasOpenSocket(b)
    /\ m \in inbox[b]
    /\ inbox' = [inbox EXCEPT ![b] = @ \ {m}]
    /\ websocketState' = [websocketState EXCEPT ![b].lastMessage = now]
    /\ lastUserMessage' = TrackMessage(m, b)
    /\ checkTimers' = ScheduleCheck(m, b)
    /\ reconciled' = IF IsFirstReceiver(m, b)
                     THEN [reconciled EXCEPT ![MessageId(m)] = 0] ELSE reconciled
    /\ botUuidCache' = CacheAfterLookups(botUuidCache, Lookups(m, b))
    /\ \E hit \in Hits(randomReplyChance) :
          LET after == ProcessMessage(DispatcherState, m, b, IsFirstReceiver(m, b), hit)
          IN  /\ users' = after.users
              /\ randomReplyChance' = after.chance
              /\ groupHistories' = after.history
    /\ calls' = <<ProcessCall(m, b, IsFirstReceiver(m, b))>>
    /\ UNCHANGED <<sockets, reconnectTimers, pendingMessages, accounts, now, faults, exited>>

\* frames JSON.parse rejects with a SyntaxError
RawGarbage == {"{not json"}

\* a handler that takes a frame it cannot decode for a broken connection
DecodeFailureDisconnects(st, t) == [st EXCEPT !.lastMessage = t, !.connected = FALSE]

\* the bot's state after a frame that did not decode: lastMessage is set
\* before JSON.parse, and the catch only logs
DecodeFailureState(st, t) == [st EXCEPT !.lastMessage = t]

\* ws.on('message') with a frame that does not decode: JSON.parse throws,
\* the catch logs the raw frame
WsMessageUndecodable(b, raw) ==
    /\ ~exited
    /\ UNCHANGED <<dispatcher, agent>>
    /\ HasOpenSocket(b)
    /\ websocketState' = [websocketState EXCEPT ![b] = DecodeFailureState(@, now)]
    /\ calls' = << <<"decodeFailed", b, raw>> >>
    /\ UNCHANGED <<sockets, reconnectTimers, lastUserMessage, checkTimers, reconciled,
                   pendingMessages, botUuidCache, accounts, inbox, now, faults, exited>>

\* a catch that gives up the message: its entry is deleted
TrackMessageDropped(m, botPhone) ==
    [lastUserMessage EXCEPT ![MessageId(m)] = NoEntry]

\* lastUserMessage after the handler's catch: the tracking ran before
\* processMessage was awaited and the catch only logs
TrackMessageThenCatch(m, botPhone) == TrackMessage(m, botPhone)

\* ws.on('message') with a frame that decodes, processMessage throwing at
\* getGroupIdFromInternal, before it touched users or histories: the
\* handler's catch logs the error
WsMessageThrows(b, m) ==
    /\ ~exited
    /\ UNCHANGED <<dispatcher, agent>>
    /\ HasOpenSocket(b)
    /\ m \in inbox[b]
    /\ inbox' = [inbox EXCEPT ![b] = @ \ {m}]
    /\ websocketState' = [websocketState EXCEPT ![b].lastMessage = now]
    /\ lastUserMessage' = TrackMessageThenCatch(m, b)
    /\ checkTimers' = ScheduleCheck(m, b)
    /\ reconciled' = IF IsFirstReceiver(m, b)
                     THEN [reconciled EXCEPT ![MessageId(m)] = 0] ELSE reconciled
    /\ calls' = <<ProcessCall(m, b, IsFirstReceiver(m, b)),
                  <<"processFailed", b, MessageId(m)>>>>
    /\ UNCHANGED <<sockets, reconnectTimers, pendingMessages, botUuidCache, accounts,
                   now, faults, exited>>

\* ------------------------------------------------------- createWebSocket

\* an open handler that leaves retryCount as it is
OnOpenStateKeepRetry(st) ==
    [st EXCEPT !.connected = TRUE, !.lastMessage = now]

\* websocketState[b] after ws.on('open')
OnOpenState(st) ==
    [st EXCEPT !.connected = TRUE, !.lastMessage = now, !.retryCount = 0]

\* an open handler that empties the queue and replays nothing
ReplayNothing(queue, b) == <<>>

\* processMessage(msgData, botPhone, false) for every drained message
ReplayCalls(queue, b) ==
    [i \in 1..Len(queue) |-> ProcessCall(queue[i], b, FALSE)]

\* console.error('Error processing pending message:', err), for every
\* drained message whose processMessage threw
ReplayFailures(queue, b, failed) ==
    SelectSeq([i \in 1..Len(queue) |-> <<"replayFailed", b, MessageId(queue[i]), i>>],
              LAMBDA c : c[4] \in failed)

\* a drain that puts the messages whose replay failed back into the queue
QueueAfterDrainRequeue(queue, failed) ==
    SelectSeq(queue, LAMBDA m : \E i \in failed : queue[i] = m)

\* pendingMessages[botPhone] = [], before any drained message is processed
QueueAfterDrain(queue, failed) == <<>>

\* a replay that goes through the message handler: the bot is recorded as
\* a receiver of the tracked messages it replays
TrackReplaysAsReceived(queue, b) ==
    [id \in MessageIds |->
        IF lastUserMessage[id] # NoEntry
           /\ \E i \in 1..Len(queue) : MessageId(queue[i]) = id
        THEN [lastUserMessage[id] EXCEPT !.receivedBy = @ \cup {b}]
        ELSE lastUserMessage[id]]

\* lastUserMessage after the replay: the drained messages go to
\* processMessage, not to the message handler, and nothing is tracked
TrackReplays(queue, b) == lastUserMessage

\* ws.on('open'), the processMessage of the drained messages at the
\* positions failed throwing before it did anything
OnOpen(b, h, failed) ==
    /\ ~exited
    /\ UNCHANGED agent
    /\ h \in 1..Len(sockets[b])
    /\ sockets[b][h] = "connecting"
    /\ sockets' = [sockets EXCEPT ![b][h] = "open"]
    /\ websocketState' = [websocketState EXCEPT ![b] = OnOpenState(@)]
    /\ pendingMessages' = [pendingMessages EXCEPT ![b] = QueueAfterDrain(@, failed)]
    /\ calls' = ReplayCalls(pendingMessages[b], b)
                    \o ReplayFailures(pendingMessages[b], b, failed)
    /\ botUuidCache' = CacheAfterLookups(botUuidCache,
                          UNION {Lookups(pendingMessages[b][i], b) :
                                    i \in (1..Len(pendingMessages[b])) \ failed})
    /\ \E hits \in [1..Len(pendingMessages[b]) -> BOOLEAN] :
          LET after == ProcessAll(DispatcherState, pendingMessages[b], b, hits, failed, 1)
          IN  /\ users' = after.users
              /\ randomReplyChance' = after.chance
              /\ groupHistories' = after.history
    /\ lastUserMessage' = TrackReplays(pendingMessages[b], b)
    /\ UNCHANGED <<reconnectTimers, checkTimers, reconciled, accounts, inbox, now,
                   faults, exited>>

\* ws.on('open') when every replay goes through
WsOpen(b, h) == OnOpen(b, h, {})

\* ws.on('open') when the dispatcher throws on some of the drained messages
WsOpenReplayFails(b, h) ==
    \E failed \in (SUBSET (1..Len(pendingMessages[b]))) \ {{}} : OnOpen(b, h, failed)

\* an error or a close of a socket the program has not closed is a fault
\* of the gateway or the network
IsFault(s) == IF s \in {"connecting", "open"} THEN 1 ELSE 0

\* an error handler that schedules a reconnect of its own
WsErrorReconnects(b, h) ==
    /\ ~exited
    /\ UNCHANGED <<dispatcher, agent>>
    /\ h \in 1..Len(sockets[b])
    /\ sockets[b][h] \in {"connecting", "open", "aborting"}
    /\ sockets' = [sockets EXCEPT ![b][h] = "closing"]
    /\ websocketState' = [websocketState EXCEPT ![b].connected = FALSE]
    /\ reconnectTimers' = [reconnectTimers EXCEPT ![b] = Append(@, RECONNECT_DELAY_MS)]
    /\ faults' = faults + IsFault(sockets[b][h])
    /\ calls' = <<>>
    /\ UNCHANGED <<lastUserMessage, checkTimers, reconciled, pendingMessages,
                   botUuidCache, accounts, inbox, now, exited>>

\* ws.on('error'): the handshake failed or was aborted, or the link broke;
\* the socket goes on to emit close
WsError(b, h) ==
    /\ ~exited
    /\ UNCHANGED <<dispatcher, agent>>
    /\ h \in 1..Len(sockets[b])
    /\ sockets[b][h] \in {"connecting", "open", "aborting"}
    /\ sockets' = [sockets EXCEPT ![b][h] = "closing"]
    /\ websocketState' = [websocketState EXCEPT ![b].connected = FALSE]
    /\ faults' = faults + IsFault(sockets[b][h])
    /\ calls' = <<>>
    /\ UNCHANGED <<reconnectTimers, lastUserMessage, checkTimers, reconciled,
                   pendingMessages, botUuidCache, accounts, inbox, now, exited>>

\* a close handler that backs off exponentially up to 30 s
ReconnectDelayBackoff(retryCount) == Min(1000 * Pow2(retryCount), 30000)

\* the delay handed to setTimeout in ws.on('close')
ReconnectDelay(retryCount) == RECONNECT_DELAY_MS

\* ws.on('close'): after a local close or an error, or closed by the gateway
WsClose(b, h) ==
    /\ ~exited
    /\ UNCHANGED <<dispatcher, agent>>
    /\ h \in 1..Len(sockets[b])
    /\ sockets[b][h] \in {"open", "closing"}
    /\ sockets' = [sockets EXCEPT ![b][h] = "closed"]
    /\ websocketState' = [websocketState EXCEPT ![b].connected = FALSE]
    /\ reconnectTimers' = [reconnectTimers EXCEPT ![b] =
            Append(@, ReconnectDelay(websocketState[b].retryCount))]
    /\ faults' = faults + IsFault(sockets[b][h])
    /\ calls' = <<>>
    /\ UNCHANGED <<lastUserMessage, checkTimers, reconciled, pendingMessages,
                   botUuidCache, accounts, inbox, now, exited>>

\* ---------------------------------------------------- reconnectWebSocket

\* a budget that allows one attempt more
GivesUpLate(st) == st.retryCount > MAX_RECONNECT_RETRIES

\* retryCount >= MAX_RECONNECT_RETRIES: "Giving up"
GivesUp(st) == st.retryCount >= MAX_RECONNECT_RETRIES

\* a reconnectWebSocket without the guard
SkipsReconnectNever(st) == FALSE

\* the guard "Already connected, skipping reconnect"
SkipsReconnect(st) == st.connected

\* reconnectWebSocket that gives up without resetting retryCount
ReconnectWebSocketNoReset(st, socks, b) ==
    IF SkipsReconnect(st) \/ GivesUp(st)
    THEN [st |-> st, socks |-> socks, calls |-> <<>>]
    ELSE [st    |-> [st EXCEPT !.retryCount = st.retryCount + 1,
                               !.ws = Len(socks) + 1],
          socks |-> Append(CloseHandle(socks, st.ws), "connecting"),
          calls |-> IF st.ws # 0 THEN << <<"close", b>> >> ELSE <<>>]

\* reconnectWebSocket that does not store the new socket
ReconnectWebSocketKeepsHandle(st, socks, b) ==
    IF SkipsReconnect(st) THEN [st |-> st, socks |-> socks, calls |-> <<>>]
    ELSE IF GivesUp(st)
    THEN [st |-> [st EXCEPT !.retryCount = 0], socks |-> socks, calls |-> <<>>]
    ELSE [st    |-> [st EXCEPT !.retryCount = st.retryCount + 1],
          socks |-> Append(CloseHandle(socks, st.ws), "connecting"),
          calls |-> IF st.ws # 0 THEN << <<"close", b>> >> ELSE <<>>]

\* Effect of reconnectWebSocket(b) on the state and the sockets of b,
\* and the ws.close() it calls on the old handle
ReconnectWebSocket(st, socks, b) ==
    IF SkipsReconnect(st) THEN [st |-> st, socks |-> socks, calls |-> <<>>]
    ELSE IF GivesUp(st)
    THEN [st |-> [st EXCEPT !.retryCount = 0], socks |-> socks, calls |-> <<>>]
    ELSE [st    |-> [st EXCEPT !.retryCount = st.retryCount + 1,
                               !.ws = Len(socks) + 1],
          socks |-> Append(CloseHandle(socks, st.ws), "connecting"),
          calls |-> IF st.ws # 0 THEN << <<"close", b>> >> ELSE <<>>]

\* the reconnect timeout set by ws.on('close') fires
ReconnectTimer(b) ==
    /\ ~exited
    /\ UNCHANGED <<dispatcher, agent>>
    /\ reconnectTimers[b] # <<>>
    /\ LET r == ReconnectWebSocket(websocketState[b], sockets[b], b)
       IN  /\ websocketState' = [websocketState EXCEPT ![b] = r.st]
           /\ sockets' = [sockets EXCEPT ![b] = r.socks]
           /\ calls' = << <<"reconnect", b>> >> \o r.calls
    /\ reconnectTimers' = [reconnectTimers EXCEPT ![b] = Tail(@)]
    /\ UNCHANGED <<lastUserMessage, checkTimers, reconciled, pendingMessages,
                   botUuidCache, accounts, inbox, now, faults, exited>>

\* ------------------------------------------------ checkMessageConsistency

\* missingBots: every configured phone the entry was not received by
MissingBots(entry) == Bots \ entry.receivedBy

\* a check that takes every missing bot for a mentioned one
MentionedMissingBotsAll(entry, cache) == MissingBots(entry)

\* mentionedMissingBots: the missing phones whose uuid, as getBotUuid
\* resolves it, is among the entry's mentioned uuids
MentionedMissingBots(entry, cache) ==
    {p \in MissingBots(entry) :
        /\ GetBotUuid(cache, p) # Null
        /\ GetBotUuid(cache, p) \in entry.mentionedBotUuids}

\* a check that puts the message at the head of the queue
EnqueueAtFront(queue, messageData) == <<messageData>> \o queue

\* a check that forgets to queue the message
EnqueueNothing(queue, messageData) == queue

\* pendingMessages[botPhone].push(messageData)
Enqueue(queue, messageData) == Append(queue, messageData)

\* a check that closes the handle and leaves the connected flag
ForceReconnectStateKeepsFlag(st) == st

\* websocketState[botPhone].connected = false; ws.close()
ForceReconnectState(st) ==
    IF st.ws # 0 THEN [st EXCEPT !.connected = FALSE] ELSE st

\* a forced reconnect that waits for the socket to close and opens the
\* next one itself
ForceCloseAndReopen(socks, ws) ==
    IF ws = 0 THEN socks
    ELSE Append([socks EXCEPT ![ws] = "closed"], "connecting")

\* the sockets of a bot after the check called ws.close() on its handle:
\* the call returns at once
ForceClose(socks, ws) == CloseHandle(socks, ws)

\* a check that does not return when the entry is gone
ToReconnectNoGuard(id) ==
    IF lastUserMessage[id] = NoEntry THEN Bots
    ELSE MentionedMissingBots(lastUserMessage[id], botUuidCache)

\* messageData = msgData.data, read once the entry is known to exist
MessageData(id) ==
    IF lastUserMessage[id] = NoEntry THEN Null ELSE lastUserMessage[id].data

\* the bots the check queues the message for and closes
ToReconnect(id) ==
    IF lastUserMessage[id] = NoEntry THEN {}
    ELSE MentionedMissingBots(lastUserMessage[id], botUuidCache)

\* the check timeout of a message fires
CheckMessageConsistency(id) ==
    /\ ~exited
    /\ UNCHANGED <<dispatcher, agent>>
    /\ checkTimers[id] # <<>>
    /\ checkTimers' = [checkTimers EXCEPT ![id] = Tail(@)]
    /\ reconciled' = IF lastUserMessage[id] = NoEntry THEN reconciled
                     ELSE [reconciled EXCEPT ![id] = @ + 1]
    /\ LET R == ToReconnect(id)
       IN  /\ pendingMessages' = [p \in Bots |->
                  IF p \in R THEN Enqueue(pendingMessages[p], MessageData(id))
                  ELSE pendingMessages[p]]
           /\ websocketState' = [p \in Bots |->
                  IF p \in R THEN ForceReconnectState(websocketState[p])
                  ELSE websocketState[p]]
           /\ sockets' = [p \in Bots |->
                  IF p \in R THEN ForceClose(sockets[p], websocketState[p].ws)
                  ELSE sockets[p]]
           /\ calls' = [i \in 1..Cardinality({p \in R : websocketState[p].ws # 0}) |->
                  <<"close", SetToSeq({p \in R : websocketState[p].ws # 0})[i]>>]
    /\ botUuidCache' = IF lastUserMessage[id] = NoEntry THEN botUuidCache
                       ELSE CacheAfterLookups(botUuidCache, Bots)
    /\ UNCHANGED <<reconnectTimers, lastUserMessage, accounts, inbox, now, faults, exited>>

\* the bots of S, in the order the check goes through them, each tagged
Tagged(tag, S) == [i \in 1..Cardinality(S) |-> <<tag, SetToSeq(S)[i]>>]

\* the check timeout of a message fires and ws.close() throws for some of
\* the bots it reconnects: the catch logs the error, the flag is cleared
\* already and the socket stays as it was
CheckCloseThrows(id) ==
    /\ ~exited
    /\ UNCHANGED <<dispatcher, agent>>
    /\ checkTimers[id] # <<>>
    /\ checkTimers' = [checkTimers EXCEPT ![id] = Tail(@)]
    /\ reconciled' = IF lastUserMessage[id] = NoEntry THEN reconciled
                     ELSE [reconciled EXCEPT ![id] = @ + 1]
    /\ LET R == ToReconnect(id)
           H == {p \in R : websocketState[p].ws # 0}
       IN  \E thrown \in (SUBSET H) \ {{}} :
              /\ pendingMessages' = [p \in Bots |->
                     IF p \in R THEN Enqueue(pendingMessages[p], MessageData(id))
                     ELSE pendingMessages[p]]
              /\ websocketState' = [p \in Bots |->
                     IF p \in R THEN ForceReconnectState(websocketState[p])
                     ELSE websocketState[p]]
              /\ sockets' = [p \in Bots |->
                     IF p \in R \ thrown
                     THEN ForceClose(sockets[p], websocketState[p].ws)
                     ELSE sockets[p]]
              /\ calls' = Tagged("close", H \ thrown) \o Tagged("closeThrew", thrown)
    /\ botUuidCache' = IF lastUserMessage[id] = NoEntry THEN botUuidCache
                       ELSE CacheAfterLookups(botUuidCache, Bots)
    /\ UNCHANGED <<reconnectTimers, lastUserMessage, accounts, inbox, now, faults, exited>>

\* ---------------------------------------------------- checkWebSocketHealth

\* a sweep that keeps the entries whose check has not run
ExpiredReconciled(entry) ==
    now - entry.timestamp > RETENTION /\ reconciled[MessageId(entry.data)] > 0

\* now - lastUserMessage[messageId].timestamp > 5 * 60 * 1000
Expired(entry) == now - entry.timestamp > RETENTION

\* state.connected && state.lastMessage && now - state.lastMessage > 5 min
IsStale(st) ==
    st.connected /\ st.lastMessage # 0 /\ now - st.lastMessage > STALE_AFTER

\* what the sweep does for a stale bot: reconnectWebSocket(botPhone, botName)
StaleReconnect(st, socks, b) == ReconnectWebSocket(st, socks, b)

StaleBots == {b \in Bots : IsStale(websocketState[b])}

ExpiredIds ==
    {id \in MessageIds : lastUserMessage[id] # NoEntry /\ Expired(lastUserMessage[id])}

\* the setInterval callback; a sweep that finds no entry to delete and no
\* stale bot changes nothing and is left out
HealthSweep ==
    /\ ~exited
    /\ UNCHANGED <<dispatcher, agent>>
    /\ ExpiredIds # {} \/ StaleBots # {}
    /\ lastUserMessage' = [id \in MessageIds |->
            IF id \in ExpiredIds THEN NoEntry ELSE lastUserMessage[id]]
    /\ websocketState' = [b \in Bots |->
            IF b \in StaleBots
            THEN StaleReconnect(websocketState[b], sockets[b], b).st
            ELSE websocketState[b]]
    /\ sockets' = [b \in Bots |->
            IF b \in StaleBots
            THEN StaleReconnect(websocketState[b], sockets[b], b).socks
            ELSE sockets[b]]
    /\ calls' = << <<"sweep">> >> \o
                [i \in 1..Cardinality(StaleBots) |->
                    <<"staleReconnect", SetToSeq(StaleBots)[i]>>]
    /\ UNCHANGED <<reconnectTimers, checkTimers, reconciled, pendingMessages,
                   botUuidCache, accounts, inbox, now, faults, exited>>

\* ------------------------------------------------------ SIGINT / SIGTERM

\* a signal handler that closes the handles of the connected bots only
ShutdownClosesConnected == {b \in Bots : websocketState[b].connected}

\* if (state.ws): the bots whose handle the signal handler closes
ShutdownCloses == {b \in Bots : websocketState[b].ws # 0}

\* process.on('SIGINT') and process.on('SIGTERM'): state.ws.close() for
\* every bot, then process.exit(0); no callback runs after that
Shutdown ==
    /\ ~exited
    /\ UNCHANGED <<dispatcher, agent>>
    /\ sockets' = [b \in Bots |->
            IF b \in ShutdownCloses
            THEN CloseHandle(sockets[b], websocketState[b].ws) ELSE sockets[b]]
    /\ calls' = [i \in 1..Cardinality(ShutdownCloses) |->
                    <<"close", SetToSeq(ShutdownCloses)[i]>>]
    /\ exited' = TRUE
    /\ UNCHANGED <<websocketState, reconnectTimers, lastUserMessage, checkTimers,
                   reconciled, pendingMessages, botUuidCache, accounts, inbox, now,
                   faults>>

\* ------------------------------------------------------------ environment

\* the timeouts of 1000 ms and 3000 ms that are pending
PendingTimeouts ==
    {b \in Bots : reconnectTimers[b] # <<>>} \cup
    {id \in MessageIds : checkTimers[id] # <<>>}

\* more than five minutes pass on the wall clock; the event loop runs a
\* timeout of a few seconds well before
Tick ==
    /\ ~exited
    /\ UNCHANGED <<dispatcher, agent>>
    /\ now < MaxTime
    /\ PendingTimeouts = {}
    /\ now' = now + 1
    /\ calls' = <<>>
    /\ UNCHANGED <<websocketState, sockets, reconnectTimers, lastUserMessage,
                   checkTimers, reconciled, pendingMessages, botUuidCache, accounts,
                   inbox, faults, exited>>

\* Date.now() is the wall clock and timeouts run on the monotonic one: the
\* wall clock is set forward by more than five minutes while timeouts are
\* pending
ClockJump ==
    /\ ~exited
    /\ UNCHANGED <<dispatcher, agent>>
    /\ now < MaxTime
    /\ now' = now + 1
    /\ calls' = <<>>
    /\ UNCHANGED <<websocketState, sockets, reconnectTimers, lastUserMessage,
                   checkTimers, reconciled, pendingMessages, botUuidCache, accounts,
                   inbox, faults, exited>>

\* the uuids accounts.json may list for a number: none, the bot's, or that
\* of a later registration of the number
DirectoryUuids(b) == {Null, AccountUuid(b), "uZ"}

\* the bots whose entry in accounts.json comes, goes or changes
UpdatedBots == {"C"}

\* signal-api rewrites accounts.json
AccountsUpdate(b, u) ==
    /\ ~exited
    /\ UNCHANGED <<dispatcher, agent>>
    /\ b \in UpdatedBots
    /\ u \in DirectoryUuids(b) \ {accounts[b]}
    /\ accounts' = [accounts EXCEPT ![b] = u]
    /\ calls' = <<>>
    /\ UNCHANGED <<websocketState, sockets, reconnectTimers, lastUserMessage,
                   checkTimers, reconciled, pendingMessages, botUuidCache, inbox, now,
                   faults, exited>>

\* -------------------------------------------------------------- the system

\* accounts.json lists every bot
AccountsChoices == {[b \in Bots |-> AccountUuid(b)]}

\* processMessage(m, b, first) on its own, with arguments of any kind: a
\* message that b did not send, for the first sighting or a later one
Dispatch(b, m, first, hit) ==
    /\ ~exited
    /\ UNCHANGED agent
    /\ b # m.source
    /\ first => Len(groupHistories) < MaxHistory
    /\ LET after == ProcessMessage(DispatcherState, m, b, first, hit)
       IN  /\ users' = after.users
           /\ randomReplyChance' = after.chance
           /\ groupHistories' = after.history
           /\ calls' = <<ProcessCall(m, b, first), <<after.outcome, b, MessageId(m)>>>>
    /\ botUuidCache' = CacheAfterLookups(botUuidCache, Lookups(m, b))
    /\ UNCHANGED <<websocketState, sockets, reconnectTimers, lastUserMessage,
                   checkTimers, reconciled, pendingMessages, accounts, inbox, now,
                   faults, exited>>

\* ------------------------------------------------------- executeAgentTurn

\* maxToolRounds = 5
DefaultMaxToolRounds == 5

\* response.stop_reason: 'max_tokens' stands for every reason that is
\* neither 'end_turn' nor 'tool_use'
StopReasons == {"end_turn", "tool_use", "max_tokens"}

\* a response of the model: its stop reason and whether its content has a
\* text block
Responses == [stop_reason : StopReasons, text : BOOLEAN]

StuckMessage ==
    "Sorry, I got stuck in a loop trying to use tools. Please try rephrasing your request."

ErrorMessage == "Sorry, I encountered an error."

\* no turn is running
NoTurn ==
    [pc |-> "idle", tools |-> FALSE, maxToolRounds |-> 0, messages |-> <<>>,
     workingMessages |-> <<>>, toolRounds |-> 0, modelCalls |-> 0,
     response |-> Null, result |-> Null]

\* executeAgentTurn(client, agent, messages, maxToolRounds) at the head of
\* its loop: workingMessages is a copy of messages, each message by its
\* role; tools is agent.tools being non-empty
Turn(messages, tools, maxToolRounds) ==
    [pc |-> "loop", tools |-> tools, maxToolRounds |-> maxToolRounds,
     messages |-> messages, workingMessages |-> messages, toolRounds |-> 0,
     modelCalls |-> 0, response |-> Null, result |-> Null]

\* the conversations a turn is given
Conversations == {<<>>, <<"user">>, <<"user", "assistant">>}

\* with tools, a conversation that ends with an assistant message gets a
\* '[continue]' user message before the call
WithoutPrefill(msgs, tools) ==
    IF tools /\ Len(msgs) > 0 /\ msgs[Len(msgs)] = "assistant"
    THEN Append(msgs, "user") ELSE msgs

\* a loop that runs one round more
LoopContinuesOneMore(toolRounds, maxToolRounds) == toolRounds <= maxToolRounds

\* while (toolRounds < maxToolRounds)
LoopContinues(toolRounds, maxToolRounds) == toolRounds < maxToolRounds

\* the text blocks of the response joined; "text" stands for a non-empty
\* join
JoinedText(resp) == IF resp.text THEN "text" ELSE ""

\* the model is called and answers with stop_reason 'end_turn'
AgentEndTurn(resp) ==
    /\ agent.pc = "loop"
    /\ LoopContinues(agent.toolRounds, agent.maxToolRounds)
    /\ resp.stop_reason = "end_turn"
    /\ agent' = [agent EXCEPT
          !.pc = "done",
          !.workingMessages = Append(WithoutPrefill(@, agent.tools), "assistant"),
          !.modelCalls = @ + 1,
          !.response = resp,
          !.result = JoinedText(resp)]
    /\ UNCHANGED <<websocketState, sockets, reconnectTimers, lastUserMessage,
                   checkTimers, reconciled, pendingMessages, botUuidCache, accounts,
                   inbox, now, faults, exited, dispatcher, calls>>

\* the model is called and answers with stop_reason 'tool_use': the tools
\* are executed, the answer and the tool results are added
AgentToolUse(resp) ==
    /\ agent.pc = "loop"
    /\ LoopContinues(agent.toolRounds, agent.maxToolRounds)
    /\ resp.stop_reason = "tool_use"
    /\ agent' = [agent EXCEPT
          !.workingMessages = WithoutPrefill(@, agent.tools) \o <<"assistant", "user">>,
          !.toolRounds = @ + 1,
          !.modelCalls = @ + 1,
          !.response = resp]
    /\ UNCHANGED <<websocketState, sockets, reconnectTimers, lastUserMessage,
                   checkTimers, reconciled, pendingMessages, botUuidCache, accounts,
                   inbox, now, faults, exited, dispatcher, calls>>

\* the model is called and answers with an unexpected stop_reason
AgentUnexpected(resp) ==
    /\ agent.pc = "loop"
    /\ LoopContinues(agent.toolRounds, agent.maxToolRounds)
    /\ resp.stop_reason \notin {"end_turn", "tool_use"}
    /\ agent' = [agent EXCEPT
          !.pc = "done",
          !.workingMessages = Append(WithoutPrefill(@, agent.tools), "assistant"),
          !.modelCalls = @ + 1,
          !.response = resp,
          !.result = IF resp.text THEN JoinedText(resp) ELSE ErrorMessage]
    /\ UNCHANGED <<websocketState, sockets, reconnectTimers, lastUserMessage,
                   checkTimers, reconciled, pendingMessages, botUuidCache, accounts,
                   inbox, now, faults, exited, dispatcher, calls>>

\* the loop ends: 'Max tool rounds exceeded'
AgentStuck ==
    /\ agent.pc = "loop"
    /\ ~LoopContinues(agent.toolRounds, agent.maxToolRounds)
    /\ agent' = [agent EXCEPT !.pc = "done", !.result = StuckMessage]
    /\ UNCHANGED <<websocketState, sockets, reconnectTimers, lastUserMessage,
                   checkTimers, reconciled, pendingMessages, botUuidCache, accounts,
                   inbox, now, faults, exited, dispatcher, calls>>

\* the dispatcher as the configuration sets it up: no user has written yet
Configured(mode, chance) ==
    /\ users = [k \in UserKeys |-> NewUser(mode)]
    /\ randomReplyChance = chance
    /\ groupHistories = <<>>
    /\ agent = NoTurn

\* main() has run: one connecting socket per bot, nothing tracked, queued
\* or cached yet
Connecting ==
    /\ websocketState = [b \in Bots |->
            [ws |-> 1, connected |-> FALSE, lastMessage |-> 1, retryCount |-> 0]]
    /\ sockets = [b \in Bots |-> <<"connecting">>]
    /\ reconnectTimers = [b \in Bots |-> <<>>]
    /\ lastUserMessage = [id \in MessageIds |-> NoEntry]
    /\ checkTimers = [id \in MessageIds |-> <<>>]
    /\ reconciled = [id \in MessageIds |-> 0]
    /\ pendingMessages = [b \in Bots |-> <<>>]
    /\ botUuidCache = [b \in Bots |-> Null]
    /\ now = 1
    /\ faults = 0
    /\ exited = FALSE
    /\ calls = <<>>

\* main() has run under a configuration that leaves the privacy mode and
\* the random replies as they are by default
Started == Connecting /\ Configured(GROUP_PRIVACY_MODE, RANDOM_REPLY_CHANCE)

\* the gateway holds one user message for the group the bots are in
Init ==
    /\ Started
    /\ accounts \in AccountsChoices
    /\ \E m \in {MsgMention, MsgPlain} : inbox = [b \in Bots |-> {m}]

\* the gateway holds a message that bot B has sent to the group
InitBot ==
    /\ Started
    /\ accounts \in AccountsChoices
    /\ inbox = [b \in Bots |-> {MsgBot}]

\* accounts.json may lack the entry of a bot or list another uuid for it;
\* the gateway holds the message that mentions bot C by uuid and by number
InitDirectory ==
    /\ Started
    /\ accounts \in {[b \in Bots |-> IF b \in UpdatedBots THEN u ELSE AccountUuid(b)] :
                        u \in DirectoryUuids("C")}
    /\ inbox = [b \in Bots |-> {MsgMention}]

\* the callbacks, with at most limit connections broken
Callbacks(limit) ==
    \/ \E b \in Bots : \E m \in Msgs : WsMessage(b, m)
    \/ \E b \in Bots : \E h \in SocketIds : WsOpen(b, h)
    \/ \E b \in Bots : \E h \in SocketIds : WsError(b, h) /\ faults' <= limit
    \/ \E b \in Bots : \E h \in SocketIds : WsClose(b, h) /\ faults' <= limit
    \/ \E b \in Bots : ReconnectTimer(b)
    \/ \E id \in MessageIds : CheckMessageConsistency(id)

Next == Callbacks(MaxFaults) \/ HealthSweep \/ Tick

Spec == Init /\ [][Next]_vars

\* The retry cycle: the same callbacks within one period of the clock, where
\* no sweep finds anything to do, with faults enough for one bot to use up
\* its reconnection attempts
NextRetry == Callbacks(MaxRetryFaults)

SpecRetry == Init /\ [][NextRetry]_vars

\* A run in which the bots receive the message of a bot
SpecBot == InitBot /\ [][Next]_vars

\* A run in which the wall clock may be set forward at any point
NextLate == Callbacks(MaxLateFaults) \/ HealthSweep \/ ClockJump

SpecLate == Init /\ [][NextLate]_vars

\* A run in which accounts.json changes under the program
NextDirectory ==
    \/ Callbacks(MaxLateFaults)
    \/ \E b \in Bots : \E u \in DirectoryUuids(b) : AccountsUpdate(b, u)

SpecDirectory == InitDirectory /\ [][NextDirectory]_vars

\* Shutdown: a signal arrives at any point of a run within one period of the
\* clock
NextShutdown == Callbacks(MaxFaults) \/ Shutdown

SpecShutdown == Init /\ [][NextShutdown]_vars

\* A run under either privacy mode, with time passing and no connection
\* broken by the network
InitHistory ==
    /\ Connecting
    /\ \E mode \in PrivacyModes : Configured(mode, RANDOM_REPLY_CHANCE)
    /\ accounts \in AccountsChoices
    /\ \E m \in {MsgMention, MsgPlain} : inbox = [b \in Bots |-> {m}]

NextHistory == Callbacks(MaxLateFaults) \/ HealthSweep \/ Tick

SpecHistory == InitHistory /\ [][NextHistory]_vars

\* The dispatcher on its own: any message of DispatchMsgs for any bot, any
\* number of times, under either privacy mode, with random replies off or
\* sure at the start
DispatchMsgs == {MsgCommand, MsgBot, MsgBotMention}

InitDispatch ==
    /\ Connecting
    /\ \E mode \in PrivacyModes : \E chance \in {0, 1} : Configured(mode, chance)
    /\ accounts \in AccountsChoices
    /\ inbox = [b \in Bots |-> {}]

NextDispatch ==
    \E b \in Bots : \E m \in DispatchMsgs : \E first \in BOOLEAN :
        \E hit \in Hits(randomReplyChance) : Dispatch(b, m, first, hit)

SpecDispatch == InitDispatch /\ [][NextDispatch]_vars

\* A run in which two messages address bot C, and the dispatcher may throw
\* on a replayed message and ws.close() on a handle the check closes
InitReplay ==
    /\ Started
    /\ accounts \in AccountsChoices
    /\ inbox = [b \in Bots |-> {MsgMention, MsgQuote}]

NextReplay ==
    \/ Callbacks(MaxLateFaults)
    \/ \E b \in Bots : \E h \in SocketIds : WsOpenReplayFails(b, h)
    \/ \E id \in MessageIds : CheckCloseThrows(id)

SpecReplay == InitReplay /\ [][NextReplay]_vars

\* A run in which frames may fail to decode and the dispatcher may throw,
\* on a live message or on a replayed one, with time passing
InitFaulty ==
    /\ Started
    /\ accounts \in AccountsChoices
    /\ inbox = [b \in Bots |-> IF b = "C" THEN {MsgMention, MsgQuote} ELSE {MsgMention}]

NextFaulty ==
    \/ Callbacks(MaxLateFaults)
    \/ Tick
    \/ \E b \in Bots : \E raw \in RawGarbage : WsMessageUndecodable(b, raw)
    \/ \E b \in Bots : \E m \in Msgs : WsMessageThrows(b, m)
    \/ \E b \in Bots : \E h \in SocketIds : WsOpenReplayFails(b, h)

SpecFaulty == InitFaulty /\ [][NextFaulty]_vars

\* One executeAgentTurn, for any conversation, with or without tools, any
\* maxToolRounds up to the default and any responses of the model; every
\* awaited call of the model comes back
InitAgent ==
    /\ Connecting
    /\ users = [k \in UserKeys |-> NewUser(GROUP_PRIVACY_MODE)]
    /\ randomReplyChance = RANDOM_REPLY_CHANCE
    /\ groupHistories = <<>>
    /\ accounts \in AccountsChoices
    /\ inbox = [b \in Bots |-> {}]
    /\ \E messages \in Conversations : \E tools \in BOOLEAN :
          \E maxToolRounds \in 0..DefaultMaxToolRounds :
              agent = Turn(messages, tools, maxToolRounds)

NextAgent ==
    \/ \E resp \in Responses : AgentEndTurn(resp)
    \/ \E resp \in Responses : AgentToolUse(resp)
    \/ \E resp \in Responses : AgentUnexpected(resp)
    \/ AgentStuck

SpecAgent == InitAgent /\ [][NextAgent]_vars /\ WF_vars(NextAgent)

\* ================================================================== claims

Range(seq) == {seq[i] : i \in 1..Len(seq)}

\* a socket of b has yet to emit close: it can still open, or its close
\* will set a reconnect timeout
LiveSocket(b) == \E h \in 1..Len(sockets[b]) : sockets[b][h] # "closed"

\* every socket of b has closed and no reconnect timeout is pending:
\* reconnectWebSocket has given up
Abandoned(b) == ~LiveSocket(b) /\ reconnectTimers[b] = <<>>

\* this step is a consistency check that closes the handle of b
ForceReconnectStep(b) ==
    /\ <<"close", b>> \in Range(calls')
    /\ <<"reconnect", b>> \notin Range(calls')

\* C1: a message queued for an addressed bot that missed it is eventually
\* handed to the dispatcher for that bot, from every connection state.  The
\* queue is drained only by an open event, so a bot with a queued message
\* must always have a socket that can still open or a reconnect timeout
\* pending.
C1_QueuedMessageStaysDeliverable ==
    \A b \in Bots :
        pendingMessages[b] # <<>> => LiveSocket(b) \/ reconnectTimers[b] # <<>>

\* C7: once reconnectWebSocket has given up for a bot, no socket is created
\* and no reconnect timeout is set for it unless a consistency check force
\* reconnects it, and giving up leaves retryCount at 0.
C7_NoRetryOnceAbandoned ==
    [][\A b \in Bots :
        /\ (Abandoned(b) /\ ~ForceReconnectStep(b))
              => sockets'[b] = sockets[b] /\ reconnectTimers'[b] = <<>>
        /\ (~Abandoned(b) /\ Abandoned(b)') => websocketState'[b].retryCount = 0]_vars

C7_Witness ==
    \E b \in Bots :
        /\ Abandoned(b)
        /\ websocketState[b].retryCount = 0
        /\ Len(sockets[b]) = MAX_RECONNECT_RETRIES + 1

\* C8: a force reconnect of a bot whose reconnection was given up starts a
\* fresh cycle: after the check has closed the handle, a socket of the bot
\* is live or a reconnect timeout is pending.
C8_ForceReconnectRestartsCycle ==
    [][\A b \in Bots :
        (Abandoned(b) /\ ForceReconnectStep(b))
            => (LiveSocket(b) \/ reconnectTimers[b] # <<>>)']_vars

\* this step is a consistency check of message id
CheckStep(id) == Len(checkTimers'[id]) < Len(checkTimers[id])

\* the bots a tracked message addresses: those whose uuid it mentions or quotes
AddressedTo(entry) == {p \in Bots : AccountUuid(p) \in entry.mentionedBotUuids}

\* the bot's stored handle is neither connecting nor open
HandleClosed(b) ==
    /\ websocketState[b].ws # 0
    /\ sockets[b][websocketState[b].ws] \notin {"connecting", "open"}

\* the check leaves bot p alone: no close, no flag change, nothing queued
Untouched(p) ==
    /\ websocketState'[p] = websocketState[p]
    /\ sockets'[p] = sockets[p]
    /\ pendingMessages'[p] = pendingMessages[p]
    /\ <<"close", p>> \notin Range(calls')

\* C2: the check of a user message received by A and B and addressed only to
\* C, which C has not received, calls close exactly once, on the handle of C,
\* marks C disconnected, appends the payload once to the queue of C, and
\* leaves A and B alone.
C2_OnlyAddressedMissingBotReconnected ==
    [][\A id \in MessageIds :
        (/\ CheckStep(id)
         /\ lastUserMessage[id] # NoEntry
         /\ lastUserMessage[id].receivedBy = {"A", "B"}
         /\ AddressedTo(lastUserMessage[id]) = {"C"})
        => /\ calls' = << <<"close", "C">> >>
           /\ ~websocketState'["C"].connected
           /\ HandleClosed("C")'
           /\ pendingMessages'["C"] =
                 Append(pendingMessages["C"], lastUserMessage[id].data)
           /\ Untouched("A") /\ Untouched("B")]_vars

C2_Witness ==
    /\ lastUserMessage[MessageId(MsgMention)] # NoEntry
    /\ lastUserMessage[MessageId(MsgMention)].receivedBy = {"A", "B"}
    /\ reconciled[MessageId(MsgMention)] = 1
    /\ calls = << <<"close", "C">> >>
    /\ pendingMessages["C"] = <<MsgMention>>
    /\ HandleClosed("C")

\* C3: a check never closes, disconnects or queues for a bot the message
\* does not address; for a message that addresses no one it changes no
\* handle, no connected flag and no queue, whoever missed it.
C3_UnaddressedBotsNeverReconnected ==
    [][\A id \in MessageIds : CheckStep(id) =>
        \A p \in Bots :
            (lastUserMessage[id] = NoEntry \/ p \notin AddressedTo(lastUserMessage[id]))
                => Untouched(p)]_vars

C3_Witness ==
    /\ lastUserMessage[MessageId(MsgPlain)] # NoEntry
    /\ lastUserMessage[MessageId(MsgPlain)].receivedBy \notin {{}, Bots}
    /\ reconciled[MessageId(MsgPlain)] = 1
    /\ calls = <<>>
    /\ \A b \in Bots : pendingMessages[b] = <<>>

\* C4: for every tracked message exactly one check is set when the entry is
\* created, later sightings by other bots set none, and at most one check
\* ever runs on the entry: the checks pending and the checks run make one.
\* Holds while every check runs before its entry is deleted (Spec); an entry
\* created again while the check of its deleted predecessor is pending gets
\* two (SpecLate).
C4_OneCheckPerTrackedMessage ==
    \A id \in MessageIds :
        lastUserMessage[id] # NoEntry => Len(checkTimers[id]) + reconciled[id] = 1

\* a socket of b opens in this step
OpenStep(b) ==
    \E h \in 1..Len(sockets[b]) : sockets[b][h] = "connecting" /\ sockets'[b][h] = "open"

\* a reconnect timeout of b fires in this step and reconnectWebSocket gives up
GiveUpStep(b) ==
    /\ Len(reconnectTimers'[b]) < Len(reconnectTimers[b])
    /\ ~websocketState[b].connected
    /\ websocketState[b].retryCount >= MAX_RECONNECT_RETRIES

\* C5 as stated: retryCount never decreases except by an open event, and is
\* 0 right after every open.
C5_RetryCountOnlyGrowsBetweenOpens ==
    [][\A b \in Bots :
        /\ OpenStep(b) => websocketState'[b].retryCount = 0
        /\ ~OpenStep(b) =>
              websocketState'[b].retryCount >= websocketState[b].retryCount]_vars

\* C5 amended: retryCount never decreases except when an open event or
\* reconnectWebSocket giving up resets it to 0, and it is 0 right after
\* every open.
C5_RetryCountResetsOnOpenOrGiveUp ==
    [][\A b \in Bots :
        /\ OpenStep(b) => websocketState'[b].retryCount = 0
        /\ \/ websocketState'[b].retryCount >= websocketState[b].retryCount
           \/ (OpenStep(b) \/ GiveUpStep(b)) /\ websocketState'[b].retryCount = 0]_vars

C5_Witness ==
    \E b \in Bots :
        /\ websocketState[b].connected
        /\ websocketState[b].retryCount = 0
        /\ Len(sockets[b]) >= 3
        /\ sockets[b][Len(sockets[b])] = "open"

\* the delay of the reconnect timeout this step sets for b, if it sets one
SetsReconnectTimer(b) == Len(reconnectTimers'[b]) > Len(reconnectTimers[b])

NewReconnectDelay(b) == reconnectTimers'[b][Len(reconnectTimers'[b])]

\* C6 as stated: the reconnect timeout a close event sets is delayed by
\* min(1000 * 2^n, 30000) ms, n the bot's retryCount at the close.
C6_ExponentialBackoff ==
    [][\A b \in Bots : SetsReconnectTimer(b) =>
        NewReconnectDelay(b) = Min(1000 * Pow2(websocketState[b].retryCount), 30000)]_vars

\* C6 amended: the reconnect timeout a close event sets is delayed by 1000 ms
\* whatever the bot's retryCount (min(1000 * 2^n, 30000) for n = 0 only); the
\* delay is non-decreasing in retryCount and never exceeds 30000 ms.
C6_FixedReconnectDelay ==
    [][\A b \in Bots : SetsReconnectTimer(b) =>
        /\ NewReconnectDelay(b) = 1000
        /\ NewReconnectDelay(b) = Min(1000 * Pow2(0), 30000)
        /\ NewReconnectDelay(b) <= 30000
        /\ \A n \in 0..websocketState[b].retryCount :
              ReconnectDelay(n) <= NewReconnectDelay(b)]_vars

C6_Witness ==
    \E b \in Bots :
        /\ websocketState[b].retryCount >= 2
        /\ reconnectTimers[b] = <<1000>>

\* C9: a health sweep that finds a bot connected with its last message more
\* than five minutes old marks it disconnected and closes its handle.
C9_SweepReconnectsStaleBot ==
    [][\A b \in Bots :
        (IsStale(websocketState[b]) /\ <<"staleReconnect", b>> \in Range(calls'))
            => ~websocketState'[b].connected /\ HandleClosed(b)']_vars

\* C10: once a sweep has triggered the stale reconnect of a bot, the bot's
\* connected flag is false, so that a second sweep before the reconnection
\* completes finds it not stale and does not trigger the reconnect again.
C10_SweptBotNoLongerStale ==
    \A b \in Bots :
        <<"staleReconnect", b>> \in Range(calls)
            => ~websocketState[b].connected /\ ~IsStale(websocketState[b])

IsPrefix(s, t) == Len(s) <= Len(t) /\ SubSeq(t, 1, Len(s)) = s

\* C11: draining the queue of a bot is atomic with respect to enqueueing: an
\* open event hands every queued message to the dispatcher, in order, and
\* leaves the queue empty; every other step keeps what is queued and at most
\* appends to it.  No queued message is dropped.
C11_DrainLosesNothing ==
    [][\A b \in Bots :
        IF OpenStep(b)
        THEN /\ pendingMessages'[b] = <<>>
             /\ calls' = [i \in 1..Len(pendingMessages[b]) |->
                            <<"process", b, MessageId(pendingMessages[b][i]), FALSE>>]
        ELSE IsPrefix(pendingMessages[b], pendingMessages'[b])]_vars

C11_Witness ==
    \E b \in Bots :
        /\ calls = << <<"process", b, MessageId(MsgMention), FALSE>> >>
        /\ pendingMessages[b] = <<>>
        /\ websocketState[b].connected
        /\ Len(sockets[b]) >= 2
        /\ b \notin lastUserMessage[MessageId(MsgMention)].receivedBy

\* C12: the dispatcher is called with isFirstReceiver = true only by the
\* message callback that creates the tracked message, for the bot of that
\* callback, so at most once per tracked message; a sighting of a message
\* already tracked and every replay is dispatched with isFirstReceiver = false.
C12_FirstReceiverOnlyForCreator ==
    [][\A id \in MessageIds :
        /\ \A i \in 1..Len(calls') :
              (calls'[i][1] = "process" /\ calls'[i][3] = id /\ calls'[i][4])
                  => /\ lastUserMessage[id] = NoEntry
                     /\ lastUserMessage'[id] # NoEntry
                     /\ lastUserMessage'[id].receivedBy = {calls'[i][2]}
                     /\ Len(calls') = 1
        /\ (lastUserMessage[id] = NoEntry /\ lastUserMessage'[id] # NoEntry)
              => \E b \in Bots : calls' = << <<"process", b, id, TRUE>> >>]_vars

C12_Witness ==
    \E b \in Bots : \E id \in MessageIds :
        /\ calls = << <<"process", b, id, FALSE>> >>
        /\ lastUserMessage[id] # NoEntry
        /\ b \in lastUserMessage[id].receivedBy
        /\ Cardinality(lastUserMessage[id].receivedBy) >= 2

\* the sockets of b that are connecting or open
LiveHandles(b) ==
    {h \in 1..Len(sockets[b]) : sockets[b][h] \in {"connecting", "open"}}

\* C13: for every bot at most one socket is connecting or open at any time,
\* and the stored handle is the socket created last.
C13_OneLiveHandle ==
    \A b \in Bots :
        /\ Cardinality(LiveHandles(b)) <= 1
        /\ websocketState[b].ws = Len(sockets[b])

C13_Witness ==
    \E b \in Bots :
        /\ Len(sockets[b]) >= 3
        /\ LiveHandles(b) = {Len(sockets[b])}
        /\ websocketState[b].connected

\* C14: a bot whose connected flag is true has a handle, and that handle is
\* open: it is the socket whose open event set the flag and it has emitted
\* neither error nor close since.
C14_ConnectedHandleIsOpen ==
    \A b \in Bots :
        websocketState[b].connected
            => /\ websocketState[b].ws # 0
               /\ sockets[b][websocketState[b].ws] = "open"

C14_Witness ==
    \E b \in Bots :
        /\ websocketState[b].connected
        /\ Len(sockets[b]) >= 2
        /\ sockets[b][websocketState[b].ws] = "open"
        /\ \E c \in Bots : c # b /\ ~websocketState[c].connected /\ Len(sockets[c]) >= 2

\* the message was sent by a configured bot: its source is a bot's phone,
\* name or uuid
BotAuthored(m) ==
    \E p \in Bots : m.source \in {p, BotName(p), AccountUuid(p)}

\* C15: no tracked message is ever created for a message sent by any of the
\* configured bots, whichever bot receives it.
C15_BotMessagesNeverTracked ==
    \A m \in Msgs : BotAuthored(m) => lastUserMessage[MessageId(m)] = NoEntry

\* this step is a health sweep
SweepStep == <<"sweep">> \in Range(calls')

\* C16: a health sweep deletes every tracked message created more than five
\* minutes before it, whether or not its check has run, and leaves the
\* younger ones as they are.
C16_SweepDeletesExactlyTheOld ==
    [][SweepStep => \A id \in MessageIds :
        IF lastUserMessage[id] # NoEntry /\ now - lastUserMessage[id].timestamp > RETENTION
        THEN lastUserMessage'[id] = NoEntry
        ELSE lastUserMessage'[id] = lastUserMessage[id]]_vars

\* a sweep has deleted an entry whose check was still pending
C16_Witness ==
    \E id \in MessageIds :
        /\ <<"sweep">> \in Range(calls)
        /\ lastUserMessage[id] = NoEntry
        /\ checkTimers[id] # <<>>
        /\ reconciled[id] = 0

\* C17: a check timeout that fires when the tracked message has been deleted
\* does nothing: no queue, no connection state and no socket changes, and
\* nothing is closed.
C17_CheckOfDeletedEntryIsNoOp ==
    [][\A id \in MessageIds :
        (CheckStep(id) /\ lastUserMessage[id] = NoEntry)
            => /\ pendingMessages' = pendingMessages
               /\ websocketState' = websocketState
               /\ sockets' = sockets
               /\ lastUserMessage' = lastUserMessage
               /\ calls' = <<>>]_vars

\* the message was received and tracked, the entry was deleted, and every
\* check set for it has fired without finding an entry
C17_Witness ==
    /\ inbox["A"] = {}
    /\ lastUserMessage[MessageId(MsgMention)] = NoEntry
    /\ checkTimers[MessageId(MsgMention)] = <<>>
    /\ reconciled[MessageId(MsgMention)] = 0
    /\ \E b \in Bots : MsgMention \in inbox[b]

\* this step is the signal handler
ShutdownStep == ~exited /\ exited'

\* C18: on SIGINT or SIGTERM close is called on the handle of every bot that
\* has one, so that no handle stays connecting or open, in the same callback
\* that exits, whatever reconnect timeouts are pending; these never run, and
\* once the process has exited no socket is created or opened.
C18_ShutdownClosesEveryHandle ==
    [][/\ ShutdownStep =>
            /\ \A b \in Bots : websocketState[b].ws # 0 =>
                  /\ <<"close", b>> \in Range(calls')
                  /\ sockets'[b][websocketState[b].ws] \notin {"connecting", "open"}
            /\ Len(calls') = Cardinality({b \in Bots : websocketState[b].ws # 0})
            /\ reconnectTimers' = reconnectTimers
       /\ exited => sockets' = sockets /\ reconnectTimers' = reconnectTimers]_vars

\* the process has exited with a reconnect timeout pending, having closed an
\* open handle and a connecting one
C18_Witness ==
    /\ exited
    /\ \A b \in Bots : <<"close", b>> \in Range(calls)
    /\ \E b \in Bots : reconnectTimers[b] # <<>>
    /\ \E b \in Bots : /\ websocketState[b].connected
                       /\ sockets[b][websocketState[b].ws] = "closing"
    /\ \E b \in Bots : sockets[b][websocketState[b].ws] = "aborting"

\* this step calls getBotUuid(b): the dispatcher is called for b, or a
\* consistency check that finds its entry resolves every bot
LookupStep(b) ==
    \/ \E i \in 1..Len(calls') : \E m \in Msgs :
          /\ calls'[i][1] = "process"
          /\ calls'[i][3] = MessageId(m)
          /\ b \in Lookups(m, calls'[i][2])
    \/ \E id \in MessageIds : CheckStep(id) /\ lastUserMessage[id] # NoEntry

\* C19: the uuid of a bot is cached on a successful lookup only and never
\* changes once cached: a cached uuid is what getBotUuid returns whatever
\* accounts.json lists then; with nothing cached getBotUuid returns what the
\* file lists, a failed lookup returns null and caches nothing, so that the
\* next call reads the file again.
C19_UuidCachedOnSuccessOnly ==
    [][\A b \in Bots :
        /\ botUuidCache[b] # Null
              => /\ botUuidCache'[b] = botUuidCache[b]
                 /\ GetBotUuid(botUuidCache, b) = botUuidCache[b]
        /\ botUuidCache[b] = Null
              => /\ GetBotUuid(botUuidCache, b) = accounts[b]
                 /\ botUuidCache'[b] = IF LookupStep(b) THEN accounts[b] ELSE Null]_vars

\* a uuid is cached for C, the file has come to list another or none, and C
\* was then looked up again
C19_Witness ==
    /\ botUuidCache["C"] # Null
    /\ accounts["C"] # botUuidCache["C"]
    /\ \E id \in MessageIds : calls = << <<"process", "C", id, FALSE>> >>
    /\ lastUserMessage[MessageId(MsgMention)] # NoEntry
    /\ reconciled[MessageId(MsgMention)] = 1
    /\ pendingMessages["C"] = <<>>

\* C20: a bot whose uuid cannot be resolved is still matched by its number:
\* the dispatcher takes a message that mentions or quotes the bot's number
\* for one that mentions the bot, and the consistency check takes a missing
\* bot mentioned by its number for an addressed one, queues the message for
\* it and closes its handle.
C20_UnresolvedBotMatchedByNumber ==
    [][\A id \in MessageIds : \A p \in Bots :
        (/\ lastUserMessage[id] # NoEntry
         /\ GetBotUuid(botUuidCache, p) = Null
         /\ p \in lastUserMessage[id].data.numbers \cup {lastUserMessage[id].data.author})
        => /\ BotMentioned(lastUserMessage[id].data, Null, p)
           /\ (CheckStep(id) /\ p \notin lastUserMessage[id].receivedBy)
                 => /\ <<"close", p>> \in Range(calls')
                    /\ pendingMessages'[p] =
                          Append(pendingMessages[p], lastUserMessage[id].data)]_vars

\* entries the shared history holds for a message
HistoryEntries(id) ==
    Cardinality({i \in 1..Len(groupHistories) : groupHistories[i] = id})

\* C21: the shared history of the group holds at most one entry for each
\* message a user wrote, however many bots saw it, live or replayed.
C21_AtMostOneHistoryEntry ==
    \A m \in Msgs : SenderIsBot(m) \/ HistoryEntries(MessageId(m)) <= 1

\* the dispatcher ran for bot b on message m in this step and the message
\* came to the given end
Dispatched(b, m, outcome) ==
    /\ Len(calls') = 2
    /\ calls'[1][1] = "process" /\ calls'[1][2] = b /\ calls'[1][3] = MessageId(m)
    /\ calls'[2] = <<outcome, b, MessageId(m)>>

\* a bot answered or obeyed the message
Answered(b, m) == Dispatched(b, m, "reply") \/ Dispatched(b, m, "command")

\* C22: no botInteractionCount ever exceeds
\* MAX_BOT_MENTIONS_PER_CONVERSATION; a bot whose count for the sending bot
\* is at the limit drops a message of that bot that mentions it, without an
\* answer and without a change to the dispatcher's state; and every answer to
\* a bot's message raises the count of the answering bot for the sender by
\* one, from below the limit, so that a chain of answers to bots ends.
C22_BotLoopBounded ==
    [][/\ \A k \in UserKeys :
            users'[k].botInteractionCount <= MAX_BOT_MENTIONS_PER_CONVERSATION
       /\ \A b \in Bots : \A m \in Msgs :
            LET k == UserKey(m.source, GroupId, b)
            IN  /\ (/\ \E outcome \in {"limit", "filtered", "command", "reply", "silent"} :
                          Dispatched(b, m, outcome)
                    /\ m.source \in Bots
                    /\ b \in m.numbers
                    /\ users[k].botInteractionCount = MAX_BOT_MENTIONS_PER_CONVERSATION)
                   => /\ Dispatched(b, m, "limit")
                      /\ UNCHANGED dispatcher
                /\ (Answered(b, m) /\ m.source \in Bots)
                   => /\ users[k].botInteractionCount < MAX_BOT_MENTIONS_PER_CONVERSATION
                      /\ users'[k].botInteractionCount = users[k].botInteractionCount + 1
      ]_vars

\* bot C, at the limit for bot B, has dropped a message of B that mentions it
C22_Witness ==
    /\ users[UserKey("B", GroupId, "C")].botInteractionCount
          = MAX_BOT_MENTIONS_PER_CONVERSATION
    /\ \E first \in BOOLEAN :
          calls = <<ProcessCall(MsgBotMention, "C", first),
                    <<"limit", "C", MessageId(MsgBotMention)>>>>

\* C23: in the group a bot executes a command only when the message
\* mentions or quotes it, whatever the chance of a random reply.
C23_CommandsNeedMention ==
    [][\A b \in Bots : \A m \in Msgs :
          Dispatched(b, m, "command")
             => BotMentioned(m, GetBotUuid(botUuidCache, b), b)]_vars

\* the error event of socket h of b: it leaves the handshake or the open
\* state for good in a step that closes nothing itself
ErrorStep(b, h) ==
    /\ h \in 1..Len(sockets[b])
    /\ sockets[b][h] \in {"connecting", "open", "aborting"}
    /\ sockets'[b][h] = "closing"
    /\ calls' = <<>>
    /\ ~exited'

\* the close event of socket h of b
CloseStep(b, h) ==
    /\ h \in 1..Len(sockets[b])
    /\ sockets[b][h] # "closed"
    /\ sockets'[b][h] = "closed"

\* socket h of these has emitted close
IsClosed(socks, h) == h \in 1..Len(socks) /\ socks[h] = "closed"

ClosedSockets(socks) == {h \in 1..Len(socks) : socks[h] = "closed"}

\* C24: the error event of a socket clears connected and sets no reconnect
\* timeout; the close event of a socket clears connected and sets exactly one
\* timeout, for its bot; nothing else sets one, and a socket closes once: an
\* error and the close that follows it leave one reconnect timeout, and the
\* timeouts pending for a bot and the sockets created for it since the start
\* (one per timeout that ran and did not give up) are never more than its
\* closed sockets.
C24_OneReconnectPerClose ==
    [][\A b \in Bots :
        /\ sockets'[b] # sockets[b] => \A h \in SocketIds :
              /\ ErrorStep(b, h) => /\ ~websocketState'[b].connected
                                    /\ reconnectTimers' = reconnectTimers
              /\ CloseStep(b, h) =>
                    /\ ~websocketState'[b].connected
                    /\ reconnectTimers' = [reconnectTimers EXCEPT ![b] =
                                              Append(@, RECONNECT_DELAY_MS)]
              /\ IsClosed(sockets[b], h) => IsClosed(sockets'[b], h)
        /\ SetsReconnectTimer(b) => \E h \in SocketIds : CloseStep(b, h)
        /\ Len(reconnectTimers'[b]) + Len(sockets'[b]) - 1
              <= Cardinality(ClosedSockets(sockets'[b]))]_vars

\* the first socket of a bot has gone through error and close, or close
\* alone, at the hands of the network: one timeout is pending for it
C24_Witness ==
    \E b \in Bots :
        /\ sockets[b] = <<"closed">>
        /\ reconnectTimers[b] = <<RECONNECT_DELAY_MS>>
        /\ ~websocketState[b].connected
        /\ faults = 1

\* reconnectWebSocket(b) was called in this step, by a reconnect timeout or
\* by the sweep
ReconnectCalled(b) ==
    <<"reconnect", b>> \in Range(calls') \/ <<"staleReconnect", b>> \in Range(calls')

\* C25: reconnectWebSocket for a bot that is connected does nothing:
\* retryCount, the stored handle, the connected flag and the queue of the
\* bot stay as they are, no socket is created and none is closed.
C25_ReconnectWhileConnectedIsNoOp ==
    [][\A b \in Bots :
        (websocketState[b].connected /\ ReconnectCalled(b))
           => /\ websocketState'[b] = websocketState[b]
              /\ sockets'[b] = sockets[b]
              /\ pendingMessages'[b] = pendingMessages[b]
              /\ <<"close", b>> \notin Range(calls')]_vars

\* the sweep has called reconnectWebSocket for a connected bot, whose first
\* socket is open still
C25_Witness ==
    \E b \in Bots :
        /\ <<"staleReconnect", b>> \in Range(calls)
        /\ websocketState[b].connected
        /\ websocketState[b].ws = 1
        /\ sockets[b] = <<"open">>

\* C26: the open event of a socket of a bot hands every message then in
\* the bot's queue to the dispatcher, in the order they were queued, and
\* leaves the queue empty; a replay that fails is logged after all have been
\* handed over, stops none of the others and puts nothing back.
C26_OpenDrainsQueueInOrder ==
    [][\A b \in Bots : OpenStep(b) =>
        LET queue == pendingMessages[b]
        IN  /\ Len(calls') >= Len(queue)
            /\ \A i \in 1..Len(queue) : calls'[i] = ProcessCall(queue[i], b, FALSE)
            /\ \A i \in (Len(queue) + 1)..Len(calls') :
                  /\ calls'[i][1] = "replayFailed"
                  /\ calls'[i][4] \in 1..Len(queue)
            /\ pendingMessages'[b] = <<>>]_vars

\* bot C has opened with two messages queued, MsgMention before MsgQuote:
\* both were replayed in that order though the first replay failed
C26_Witness ==
    /\ calls = <<ProcessCall(MsgMention, "C", FALSE), ProcessCall(MsgQuote, "C", FALSE),
                 <<"replayFailed", "C", MessageId(MsgMention), 1>>>>
    /\ pendingMessages["C"] = <<>>
    /\ websocketState["C"].connected

ClosesHandleOf(p) ==
    <<"close", p>> \in Range(calls') \/ <<"closeThrew", p>> \in Range(calls')

\* C28: the check appends the payload to the queue of every missing bot the
\* message addresses, in the step that closes the bot's handle and whatever
\* the state of the handle, also when ws.close() throws; and it closes no
\* handle without having queued the payload for its bot.
C28_EnqueuedBeforeClose ==
    [][\A id \in MessageIds : (CheckStep(id) /\ lastUserMessage[id] # NoEntry) =>
        \A p \in Bots :
           /\ (p \in AddressedTo(lastUserMessage[id]) \ lastUserMessage[id].receivedBy)
                 => /\ pendingMessages'[p] =
                          Append(pendingMessages[p], lastUserMessage[id].data)
                    /\ ~websocketState'[p].connected
           /\ ClosesHandleOf(p)
                 => pendingMessages'[p] =
                       Append(pendingMessages[p], lastUserMessage[id].data)]_vars

\* ws.close() threw on the open handle of bot C, which had a message queued
\* already: the second message is queued behind it, the handle is open still
C28_Witness ==
    /\ calls = << <<"closeThrew", "C">> >>
    /\ Len(pendingMessages["C"]) = 2
    /\ pendingMessages["C"][1] # pendingMessages["C"][2]
    /\ ~websocketState["C"].connected
    /\ sockets["C"][websocketState["C"].ws] = "open"

\* C29: the forced reconnect of a bot does not block: the check step clears
\* the bot's connected flag and calls close on its stored handle, which is
\* then neither connecting nor open, and creates no socket, stores no other
\* handle and sets no reconnect timeout; a socket is created for a bot only
\* in a later step, when a reconnect timeout of the bot fires, and such a
\* timeout is set by a close event only.
C29_ForceReconnectDoesNotBlock ==
    [][\A p \in Bots :
        /\ (\E id \in MessageIds : CheckStep(id)) /\ <<"close", p>> \in Range(calls')
              => /\ ~websocketState'[p].connected
                 /\ HandleClosed(p)'
                 /\ Len(sockets'[p]) = Len(sockets[p])
                 /\ websocketState'[p].ws = websocketState[p].ws
                 /\ reconnectTimers' = reconnectTimers
        /\ Len(sockets'[p]) # Len(sockets[p])
              => /\ Len(sockets'[p]) = Len(sockets[p]) + 1
                 /\ calls'[1] = <<"reconnect", p>>
                 /\ reconnectTimers[p] # <<>>
                 /\ reconnectTimers'[p] = Tail(reconnectTimers[p])
        /\ SetsReconnectTimer(p) => \E h \in SocketIds : CloseStep(p, h)]_vars

\* bot C, closed by a check and by nothing else, has gone through the close
\* event and the reconnect timeout and replays on its second socket
C29_Witness ==
    /\ faults = 0
    /\ sockets["C"] = <<"closed", "open">>
    /\ websocketState["C"].ws = 2
    /\ reconnectTimers["C"] = <<>>
    /\ calls = << <<"process", "C", MessageId(MsgMention), FALSE>> >>

\* the gateway pushes m to bot b in this step
LiveMessageStep(b, m) == m \in inbox[b] /\ inbox'[b] = inbox[b] \ {m}

\* C30: a bot that receives a message of a user is in the receivedBy of the
\* message's entry after the step, as the only one when the step created
\* the entry; the receivedBy of an entry only grows while the entry exists,
\* is never empty and holds configured bots only.
C30_ReceiversAreRecorded ==
    [][/\ \A b \in Bots : \A m \in Msgs :
            (LiveMessageStep(b, m) /\ m.source \notin Bots)
               => /\ lastUserMessage'[MessageId(m)] # NoEntry
                  /\ b \in lastUserMessage'[MessageId(m)].receivedBy
                  /\ lastUserMessage[MessageId(m)] = NoEntry
                        => lastUserMessage'[MessageId(m)].receivedBy = {b}
       /\ \A id \in MessageIds :
            lastUserMessage'[id] # NoEntry
               => /\ lastUserMessage'[id].receivedBy # {}
                  /\ lastUserMessage'[id].receivedBy \subseteq Bots
                  /\ lastUserMessage[id] # NoEntry
                        => lastUserMessage[id].receivedBy
                              \subseteq lastUserMessage'[id].receivedBy]_vars

\* every bot has received the message: the last of them was added to the
\* entry that another had created
C30_Witness ==
    \E m \in {MsgMention, MsgPlain} : \E b \in Bots :
        /\ lastUserMessage[MessageId(m)] # NoEntry
        /\ lastUserMessage[MessageId(m)].receivedBy = Bots
        /\ calls = <<ProcessCall(m, b, FALSE)>>
        /\ inbox = [p \in Bots |-> {}]

\* this step is the message handler of b given a frame that does not decode
DecodeFailureStep(b) ==
    \E raw \in RawGarbage : calls' = << <<"decodeFailed", b, raw>> >>

\* C31: a frame that fails to decode is dropped without crash or retry: no
\* tracked message is created or changed and no check is scheduled, the
\* dispatcher is not called and its state is untouched, no socket, timer or
\* queue changes, the process keeps running, and of the connection states
\* only the receiving bot's lastMessage changes, to the current time.
C31_UndecodableFrameIsDropped ==
    [][\A b \in Bots :
        DecodeFailureStep(b) =>
            /\ lastUserMessage' = lastUserMessage
            /\ checkTimers' = checkTimers
            /\ reconciled' = reconciled
            /\ dispatcher' = dispatcher
            /\ \A i \in 1..Len(calls') : calls'[i][1] # "process"
            /\ websocketState'[b] = [websocketState[b] EXCEPT !.lastMessage = now]
            /\ \A p \in Bots \ {b} : websocketState'[p] = websocketState[p]
            /\ sockets' = sockets
            /\ reconnectTimers' = reconnectTimers
            /\ pendingMessages' = pendingMessages
            /\ inbox' = inbox
            /\ ~exited']_vars

\* a connected bot has just dropped an undecodable frame while a message is
\* tracked, a clock period after it opened
C31_Witness ==
    \E b \in Bots : \E raw \in RawGarbage :
        /\ calls = << <<"decodeFailed", b, raw>> >>
        /\ websocketState[b].connected
        /\ websocketState[b].lastMessage = now
        /\ now > 1
        /\ \E id \in MessageIds : lastUserMessage[id] # NoEntry

\* this step is the handler of b whose processMessage of message id threw
LiveFailureStep(b, id) == <<"processFailed", b, id>> \in Range(calls')

\* this step is an open of b in which the replay of a queued message threw
ReplayFailureStep(b) ==
    \E c \in Range(calls') : c[1] = "replayFailed" /\ c[2] = b

\* no tracked message and no scheduled check is removed by this step
KeepsTracking ==
    \A id \in MessageIds :
        /\ lastUserMessage[id] # NoEntry => lastUserMessage'[id] # NoEntry
        /\ Len(checkTimers'[id]) >= Len(checkTimers[id])

\* C32: an exception of the dispatcher, on a live or a replayed message, is
\* caught: the process keeps running; no connection state changes beyond
\* what the handler does without the exception (lastMessage of the
\* receiving bot for a live message, the open's own assignments for a
\* replay); no tracked message or scheduled check is removed, and the live
\* message stays tracked with the bot as a receiver; the bot's socket stays
\* open with the rest of its inbox to come, and the other messages of the
\* drained queue are still handed to the dispatcher.
C32_DispatcherExceptionIsContained ==
    [][\A b \in Bots :
        /\ \A m \in Msgs :
             LiveFailureStep(b, MessageId(m)) =>
                /\ ~exited'
                /\ websocketState' = [websocketState EXCEPT ![b].lastMessage = now]
                /\ sockets' = sockets
                /\ reconnectTimers' = reconnectTimers
                /\ pendingMessages' = pendingMessages
                /\ KeepsTracking
                /\ IsBotMessage(m.source, b)
                      \/ /\ lastUserMessage'[MessageId(m)] # NoEntry
                         /\ b \in lastUserMessage'[MessageId(m)].receivedBy
                         /\ lastUserMessage[MessageId(m)] = NoEntry
                               => checkTimers'[MessageId(m)] # <<>>
                /\ HasOpenSocket(b)'
                /\ inbox' = [inbox EXCEPT ![b] = @ \ {m}]
        /\ ReplayFailureStep(b) =>
                /\ ~exited'
                /\ websocketState'[b].connected
                /\ websocketState'[b].ws = websocketState[b].ws
                /\ websocketState'[b].retryCount = 0
                /\ \A p \in Bots \ {b} :
                      websocketState'[p] = websocketState[p] /\ sockets'[p] = sockets[p]
                /\ reconnectTimers' = reconnectTimers
                /\ KeepsTracking
                /\ HasOpenSocket(b)'
                /\ inbox' = inbox
                /\ \A i \in 1..Len(pendingMessages[b]) :
                      ProcessCall(pendingMessages[b][i], b, FALSE) \in Range(calls')]_vars

\* bot C, the first to see MsgMention, had the dispatcher throw on it and
\* has now taken MsgQuote on the same connection: the first message is
\* tracked with C as its only receiver and no history holds it
C32_Witness ==
    /\ \E first \in BOOLEAN : calls = <<ProcessCall(MsgQuote, "C", first)>>
    /\ inbox["C"] = {}
    /\ lastUserMessage[MessageId(MsgMention)] # NoEntry
    /\ lastUserMessage[MessageId(MsgMention)].receivedBy = {"C"}
    /\ HistoryEntries(MessageId(MsgMention)) = 0
    /\ HistoryEntries(MessageId(MsgQuote)) = 1
    /\ websocketState["C"].connected

\* this step creates a socket for b
AttemptStep(b) == Len(sockets'[b]) > Len(sockets[b])

\* C33: retryCount of every bot is always within 0..MAX_RECONNECT_RETRIES.
\* Every socket reconnectWebSocket creates raises retryCount by one from a
\* value below the maximum, and retryCount falls only by an open event or
\* by giving up, so at most MAX_RECONNECT_RETRIES attempts are made in a
\* row; the reconnect call at the maximum creates no socket, sets no
\* timeout and puts retryCount back to 0.
C33_RetryBudget ==
    /\ [](\A b \in Bots : websocketState[b].retryCount \in 0..MAX_RECONNECT_RETRIES)
    /\ [][\A b \in Bots :
            /\ AttemptStep(b) =>
                  /\ websocketState[b].retryCount < MAX_RECONNECT_RETRIES
                  /\ websocketState'[b].retryCount = websocketState[b].retryCount + 1
                  /\ Len(sockets'[b]) = Len(sockets[b]) + 1
            /\ websocketState'[b].retryCount < websocketState[b].retryCount
                  => OpenStep(b) \/ GiveUpStep(b)
            /\ GiveUpStep(b) =>
                  /\ sockets'[b] = sockets[b]
                  /\ reconnectTimers'[b] = Tail(reconnectTimers[b])
                  /\ websocketState'[b].retryCount = 0]_vars

\* a bot has used up its attempts, the last of them has failed, and the
\* reconnect timeout that will give up is pending
C33_Witness ==
    \E b \in Bots :
        /\ websocketState[b].retryCount = MAX_RECONNECT_RETRIES
        /\ ~websocketState[b].connected
        /\ ~LiveSocket(b)
        /\ reconnectTimers[b] # <<>>
        /\ Len(sockets[b]) = MAX_RECONNECT_RETRIES + 1

\* this step is the dispatcher of some bot given a message a human wrote
HumanMessageStep ==
    \E b \in Bots : \E m \in Msgs :
        /\ ~SenderIsBot(m)
        /\ \E outcome \in {"limit", "filtered", "command", "reply", "silent"} :
              Dispatched(b, m, outcome)

\* C34: a message a human wrote in the group puts the botInteractionCount of
\* every user record of that group back to 0.
C34_HumanMessageResetsCounters ==
    [][HumanMessageStep =>
          \A k \in UserKeys : k[2] = GroupId => users'[k].botInteractionCount = 0]_vars

\* in this step the gateway pushes the user's message m to bot b and the
\* dispatcher of b generates a reply to it
RepliesTo(b, m) ==
    /\ LiveMessageStep(b, m)
    /\ ~SenderIsBot(m)
    /\ \E first \in BOOLEAN : \E hit \in Hits(randomReplyChance) :
          /\ calls' = <<ProcessCall(m, b, first)>>
          /\ ProcessMessage(DispatcherState, m, b, first, hit).outcome = "reply"

\* C35: when a bot generates a reply to a message a user wrote in the group,
\* the shared history it passes to the model holds that message, whatever
\* the order in which the bots received it and whatever the privacy mode.
C35_ReplySeesItsMessage ==
    [][\A b \in Bots : \A m \in Msgs :
          RepliesTo(b, m) => HistoryEntries(MessageId(m))' >= 1]_vars

\* the message neither mentions nor quotes bot b, by number or by uuid
Unaddressed(b, m) ==
    /\ b \notin m.numbers
    /\ AccountUuid(b) \notin m.mentions
    /\ m.author # b
    /\ m.quote # AccountUuid(b)

\* C36: under opt-in, a bot drops a message of a human that neither
\* mentions or quotes it nor starts with '.': the shared history is
\* unchanged, the outcome is neither a reply nor a command, whatever the
\* chance of a random reply, and no command has changed that chance.
C36_OptInIgnoresUnaddressed ==
    [][\A b \in Bots : \A m \in Msgs :
          (/\ \E outcome \in {"limit", "filtered", "command", "reply", "silent"} :
                 Dispatched(b, m, outcome)
           /\ m.source \notin Bots
           /\ users[UserKey(m.source, GroupId, b)].privacyMode = "opt-in"
           /\ Unaddressed(b, m)
           /\ m.content[1] # ".")
          => /\ Dispatched(b, m, "filtered")
             /\ groupHistories' = groupHistories
             /\ randomReplyChance' = randomReplyChance]_vars

\* under opt-in and with random replies sure, bot A, the first to see it,
\* has dropped the command that mentions C only
C36_Witness ==
    /\ calls = <<ProcessCall(MsgCommand, "A", TRUE),
                 <<"filtered", "A", MessageId(MsgCommand)>>>>
    /\ users[UserKey("U", GroupId, "A")].privacyMode = "opt-in"
    /\ randomReplyChance = 1
    /\ groupHistories = <<>>

\* this step is a call of the model by the running turn
ModelCallStep == agent'.modelCalls = agent.modelCalls + 1

\* C37: executeAgentTurn returns, whatever the model answers.  It never
\* makes more than maxToolRounds calls, nor more than maxToolRounds calls
\* answered with 'tool_use'; a call answered with any other stop reason is
\* its last and its result is not the 'stuck in a loop' message; and a turn
\* that has returned after maxToolRounds answers of 'tool_use' returns that
\* message with the messages it was given followed by the answer and the
\* tool results of every round.
C37_AgentTurnTerminates ==
    /\ <>(agent.pc = "done")
    /\ [](/\ agent.toolRounds <= agent.maxToolRounds
          /\ agent.modelCalls <= agent.maxToolRounds
          /\ (agent.pc = "done" /\ agent.toolRounds = agent.maxToolRounds)
                => /\ agent.result = StuckMessage
                   /\ agent.modelCalls = agent.maxToolRounds
                   /\ IsPrefix(agent.messages, agent.workingMessages)
                   /\ Len(agent.workingMessages)
                         >= Len(agent.messages) + 2 * agent.maxToolRounds
          /\ (agent.pc = "done" /\ agent.result = StuckMessage)
                => agent.toolRounds = agent.maxToolRounds)
    /\ [][/\ agent.pc = "done" => agent' = agent
          /\ ModelCallStep =>
                /\ agent.pc = "loop"
                /\ agent.toolRounds < agent.maxToolRounds
                /\ IF agent'.response.stop_reason = "tool_use"
                   THEN agent'.pc = "loop" /\ agent'.toolRounds = agent.toolRounds + 1
                   ELSE /\ agent'.pc = "done"
                        /\ agent'.toolRounds = agent.toolRounds
                        /\ agent'.result # StuckMessage]_vars

\* a turn with tools and the default maxToolRounds, given a conversation
\* that ends with an assistant message, has returned the 'stuck in a loop'
\* message after as many calls, all answered with 'tool_use'
C37_Witness ==
    /\ agent.pc = "done"
    /\ agent.tools
    /\ agent.maxToolRounds = DefaultMaxToolRounds
    /\ agent.modelCalls = DefaultMaxToolRounds
    /\ agent.toolRounds = DefaultMaxToolRounds
    /\ agent.result = StuckMessage
    /\ Len(agent.workingMessages) > Len(agent.messages) + 2 * DefaultMaxToolRounds

====
